---- MODULE Spec2Model ----
(***************************************************************************)
(* A model of Pathfinder's paint palette (renderer/src/paint.rs), of its   *)
(* tile z-buffer (renderer/src/z_buffer.rs) and of its gradients           *)
(* (content/src/gradient.rs).                                              *)
(*                                                                         *)
(* The z-buffer is written by parallel workers: every atomic load and      *)
(* every compare-and-swap of ZBuffer::update is one step of the model.     *)
(***************************************************************************)
EXTENDS Integers, Sequences, FiniteSets

(***************************************************************************)
(* Bounds of the model.                                                    *)
(***************************************************************************)
\* worker threads that call ZBuffer::update
NumWorkers == 2
\* update calls invoked in one run, over all tiles
MaxCalls == 3
\* push_paint calls in one run
MaxPushes == 3
\* SolidColorTileBuilder::allocate calls in one run
MaxAllocations == 514

(***************************************************************************)
(* Integer widths.                                                         *)
(***************************************************************************)
\* u16::MAX + 1: `object_index: u16` in ZBuffer::update
U16Modulus == 65536

U16Max == U16Modulus - 1

\* paint.rs:22
PAINT_TEXTURE_LENGTH == 1024

\* paint.rs:23
PAINT_TEXTURE_SCALE == U16Modulus \div PAINT_TEXTURE_LENGTH

Max(a, b) == IF a >= b THEN a ELSE b

(***************************************************************************)
(* The tile grid (DenseTileMap, consumed through its interface).           *)
(***************************************************************************)
\* buffer.rect: the tile rectangle ZBuffer::new rounds the view box out to
TileRectOrigin == <<0 - 1, 2>>

\* two tiles in one row
TileRectSize == <<2, 1>>

\* the tile coordinates inside buffer.rect
TileCoords ==
    { <<x, y>> : x \in TileRectOrigin[1] .. (TileRectOrigin[1] + TileRectSize[1] - 1),
                 y \in TileRectOrigin[2] .. (TileRectOrigin[2] + TileRectSize[2] - 1) }

\* buffer.data's indices
TileIndices == 0 .. (TileRectSize[1] * TileRectSize[2] - 1)

\* DenseTileMap::coords_to_index_unchecked: row-major index inside the rect
coords_to_index_unchecked(coords) ==
    (coords[2] - TileRectOrigin[2]) * TileRectSize[1] + (coords[1] - TileRectOrigin[1])

\* DenseTileMap::index_to_coords: the coordinates of a slot, relative to the rect
index_to_coords(tile_index) ==
    <<tile_index % TileRectSize[1], tile_index \div TileRectSize[1]>>

(***************************************************************************)
(* Inputs.                                                                 *)
(***************************************************************************)
Workers == 1 .. NumWorkers

\* object_index: u16 of ZBuffer::update: small indices and the top of the range
ObjectIndices == {0, 1, 2, U16Max}

\* object_index: u32 of ZBuffer::test
TestIndices == ObjectIndices

\* the calls 0 .. n-1 that ran to completion before the run starts, per tile:
\* none, or those of a scene of u16::MAX objects that all cover the first tile
PriorCalls ==
    { [t \in TileIndices |-> 0],
      [t \in TileIndices |-> IF t = 0 THEN U16Max ELSE 0] }

VARIABLES
    data,             \* buffer.data: tile index -> the tile's AtomicUsize
    overflow_checks,  \* the build: TRUE when integer overflow panics (debug)
    pc,               \* worker -> "idle" | "cas" | "panicked"
    tile_index,       \* worker -> tile_index of its update call
    object_index,     \* worker -> object_index of its update call
    old_depth,        \* worker -> old_depth of its update call
    new_depth,        \* worker -> new_depth of its update call
    prior,            \* tile -> n: update(0) .. update(n-1) returned before the run
    invoked,          \* tile -> the object indices of the updates invoked in the run
    ncalls,           \* tile -> number of update calls invoked in the run
    nreturned,        \* tile -> number of update calls that returned in the run
    last_test,        \* the latest ZBuffer::test call: its arguments and result
    object_range,     \* the object_range of the latest build_solid_tiles call
    solid_tiles       \* the Vec the latest build_solid_tiles call returned

VARIABLES
    paints,           \* Palette.paints, past the first `prefilled` elements
    cache,            \* Palette.cache: Paint -> PaintId, for the paints of `paints`
    prefilled,        \* number of distinct paints pushed before the run starts
    push_log,         \* the push_paint calls of the run: <<paint, returned id>>
    builder,          \* SolidColorTileBuilder.0: <<>> for None, else <<data>>
    granted,          \* the origins of the regions the TextureAllocator has granted
    locations,        \* the origins of the locations allocate has returned, in order
    allocate_failed   \* allocate panicked: "Failed to allocate a solid color tile!"

VARIABLES
    stops,            \* Gradient.stops.array: the ColorStops, in the list's order
    added,            \* the stops given to add_color_stop, in call order
    sampled,          \* the latest Gradient::sample call: its argument and outcome
    to_i32,           \* the build: how F32x4::to_i32x4 rounds, "truncate" | "nearest"
    build_pc,         \* build_paint_info: "idle" | "loop" | "done" | "panicked"
    texels,           \* PaintData.texels: texel index -> RGBA, for the texels written
    metadata,         \* the metadata Vec of build_paint_info
    self_paint,       \* the Paint the predicates of impl Paint are asked about
    queried,          \* the latest predicate asked of it: the method and its answer
    texel_origin,     \* the atlas texel a paint's solid color is stored at
    primitive         \* the SolidTileBatchPrimitive made for a tile of that paint

pvars == <<paints, cache, prefilled, push_log>>

gvars == <<stops, added, sampled, to_i32>>

bvars == <<build_pc, texels, metadata>>

qvars == <<self_paint, queried>>

xvars == <<texel_origin, primitive>>

\* the variables of the gradient, the paint-info build, the paint predicates and
\* the primitive constructor
ovars == <<gvars, bvars, qvars, xvars>>

kvars == <<builder, granted, locations, allocate_failed>>

zvars == <<data, overflow_checks, pc, tile_index, object_index, old_depth, new_depth,
           prior, invoked, ncalls, nreturned, last_test, object_range, solid_tiles>>

vars == <<zvars, pvars, kvars, ovars>>

NoTest == [coords |-> <<0, 0>>, object_index |-> 0, result |-> TRUE, called |-> FALSE]

(***************************************************************************)
(* ZBuffer::test and ZBuffer::update.                                      *)
(***************************************************************************)
\* z_buffer.rs:39, without the + 1
ZTestNoIncrement(existing_depth, k) == existing_depth < k

\* z_buffer.rs:39: existing_depth < object_index as usize + 1.  The index is
\* widened to usize before the addition, which cannot wrap for the indices drawn.
ZTest(existing_depth, k) == existing_depth < k + 1

\* z_buffer.rs:45 with the addition done after widening, as ZBuffer::test does it;
\* C2, C4 and C5 hold with this in place of NewDepth
NewDepthWidened(k) == k + 1

\* z_buffer.rs:45: (object_index + 1) as usize. The addition is done in u16; this
\* is its wrapped result (a build with overflow checks panics instead).
NewDepth(k) == (k + 1) % U16Modulus

\* z_buffer.rs:45: whether object_index + 1 overflows u16
NewDepthOverflows(k) == k + 1 > U16Max

\* a plain store in place of the compare-and-swap
StoreUnconditionally(current, old, new) == new

\* z_buffer.rs:47-51: the value compare_and_swap leaves in the atomic
CompareAndSwap(current, old, new) == IF current = old THEN new ELSE current

\* z_buffer.rs:46: while old_depth < new_depth
LoopCondition(old, new) == old < new

ActiveCalls == {w \in Workers : pc[w] = "cas"}

TotalCalls == LET Sum[i \in 0 .. Cardinality(TileIndices)] ==
                      IF i = 0 THEN 0 ELSE Sum[i - 1] + ncalls[i - 1]
              IN Sum[Cardinality(TileIndices)]

\* z_buffer.rs:36-40: one atomic load and a comparison
Test(coords, k) ==
    /\ last_test' = [coords |-> coords, object_index |-> k, called |-> TRUE,
                     result |-> ZTest(data[coords_to_index_unchecked(coords)], k)]
    /\ UNCHANGED <<data, overflow_checks, pc, tile_index, object_index, old_depth,
                   new_depth, prior, invoked, ncalls, nreturned, object_range,
                   solid_tiles, pvars, kvars, ovars>>

\* the locals of an update call are dead once it has returned
Returned(f, w) == [f EXCEPT ![w] = 0]

\* z_buffer.rs:42-46: the call, its load, its candidate and the first loop test
UpdateLoad(w, coords, k) ==
    LET t == coords_to_index_unchecked(coords) IN
    /\ pc[w] = "idle"
    /\ TotalCalls < MaxCalls
    /\ invoked' = [invoked EXCEPT ![t] = @ \cup {k}]
    /\ ncalls' = [ncalls EXCEPT ![t] = @ + 1]
    /\ IF NewDepthOverflows(k) /\ overflow_checks
       THEN \* attempt to add with overflow: the worker panics
            /\ pc' = [pc EXCEPT ![w] = "panicked"]
            /\ UNCHANGED <<tile_index, object_index, old_depth, new_depth, nreturned>>
       ELSE IF LoopCondition(data[t], NewDepth(k))
            THEN /\ pc' = [pc EXCEPT ![w] = "cas"]
                 /\ tile_index' = [tile_index EXCEPT ![w] = t]
                 /\ object_index' = [object_index EXCEPT ![w] = k]
                 /\ old_depth' = [old_depth EXCEPT ![w] = data[t]]
                 /\ new_depth' = [new_depth EXCEPT ![w] = NewDepth(k)]
                 /\ UNCHANGED nreturned
            ELSE /\ nreturned' = [nreturned EXCEPT ![t] = @ + 1]
                 /\ UNCHANGED <<pc, tile_index, object_index, old_depth, new_depth>>
    /\ UNCHANGED <<data, overflow_checks, prior, last_test, object_range, solid_tiles,
                   pvars, kvars, ovars>>

\* z_buffer.rs:47-57 without line 56: a failed compare-and-swap is retried with
\* the depth read before it
UpdateCasStale(w) ==
    LET t == tile_index[w]
        prev_depth == data[t]
    IN
    /\ pc[w] = "cas"
    /\ data' = [data EXCEPT ![t] = CompareAndSwap(data[t], old_depth[w], new_depth[w])]
    /\ IF prev_depth = old_depth[w]
       THEN /\ pc' = [pc EXCEPT ![w] = "idle"]
            /\ nreturned' = [nreturned EXCEPT ![t] = @ + 1]
            /\ tile_index' = Returned(tile_index, w)
            /\ object_index' = Returned(object_index, w)
            /\ old_depth' = Returned(old_depth, w)
            /\ new_depth' = Returned(new_depth, w)
       ELSE UNCHANGED <<pc, nreturned, tile_index, object_index, old_depth, new_depth>>
    /\ UNCHANGED <<overflow_checks, prior, invoked, ncalls, last_test, object_range,
                   solid_tiles, pvars, kvars, ovars>>

\* z_buffer.rs:47-57: one compare-and-swap, then return or the next loop test
UpdateCas(w) ==
    LET t == tile_index[w]
        prev_depth == data[t]
    IN
    /\ pc[w] = "cas"
    /\ data' = [data EXCEPT ![t] = CompareAndSwap(data[t], old_depth[w], new_depth[w])]
    /\ IF prev_depth = old_depth[w] \/ ~LoopCondition(prev_depth, new_depth[w])
       THEN \* successfully written, or the loop ends: the call returns
            /\ pc' = [pc EXCEPT ![w] = "idle"]
            /\ nreturned' = [nreturned EXCEPT ![t] = @ + 1]
            /\ tile_index' = Returned(tile_index, w)
            /\ object_index' = Returned(object_index, w)
            /\ old_depth' = Returned(old_depth, w)
            /\ new_depth' = Returned(new_depth, w)
       ELSE /\ old_depth' = [old_depth EXCEPT ![w] = prev_depth]
            /\ UNCHANGED <<pc, nreturned, tile_index, object_index, new_depth>>
    /\ UNCHANGED <<overflow_checks, prior, invoked, ncalls, last_test, object_range,
                   solid_tiles, pvars, kvars, ovars>>

(***************************************************************************)
(* ZBuffer::build_solid_tiles and SolidTileBatchPrimitive::new.            *)
(***************************************************************************)
\* `as u16`: the low 16 bits
AsU16(x) == x % U16Modulus

\* `as i16`: the low 16 bits, read as two's complement
AsI16(x) == IF x % U16Modulus >= U16Modulus \div 2
            THEN (x % U16Modulus) - U16Modulus
            ELSE x % U16Modulus

\* paint.rs:149-153 with the whole scale added in place of half of it
TexTransformTexelEnd(origin) ==
    [matrix |-> <<0, 0, 0, 0>>,
     vector |-> <<origin[1] * PAINT_TEXTURE_SCALE + PAINT_TEXTURE_SCALE,
                  origin[2] * PAINT_TEXTURE_SCALE + PAINT_TEXTURE_SCALE>>]

\* paint.rs:149-153: the texture transform of a solid color stored at `origin`:
\* a zero matrix and the texel's centre in 0.16 fixed point
TexTransform(origin) ==
    [matrix |-> <<0, 0, 0, 0>>,
     vector |-> <<origin[1] * PAINT_TEXTURE_SCALE + PAINT_TEXTURE_SCALE \div 2,
                  origin[2] * PAINT_TEXTURE_SCALE + PAINT_TEXTURE_SCALE \div 2>>]

\* the paint_metadata argument: the metadata of a scene of two opaque solid colors
\* stored at texels (0, 0) and (1, 0)
ScenePaintMetadata ==
    << [tex_transform |-> TexTransform(<<0, 0>>), is_opaque |-> TRUE],
       [tex_transform |-> TexTransform(<<1, 0>>), is_opaque |-> TRUE] >>

\* the paths argument: paths[i].paint(), the objects alternating the two paints
ScenePathPaint(i) == i % Len(ScenePaintMetadata)

\* the object_range arguments drawn: full, partial, empty and top-of-range ranges
ObjectRanges ==
    { <<0, U16Modulus>>, <<0, 1>>, <<1, 2>>, <<1, 3>>, <<2, 2>>, <<3, 1>>,
      <<U16Max - 2, U16Max - 1>>, <<U16Max - 1, U16Max>> }

\* z_buffer.rs:90-106
SolidTileBatchPrimitiveNew(tile_coords, k, tex_transform) ==
    [tile_x |-> AsI16(tile_coords[1]),
     tile_y |-> AsI16(tile_coords[2]),
     object_index |-> k,
     texture_m00 |-> AsU16(tex_transform.matrix[1]),
     texture_m10 |-> AsU16(tex_transform.matrix[2]),
     texture_m01 |-> AsU16(tex_transform.matrix[3]),
     texture_m11 |-> AsU16(tex_transform.matrix[4]),
     texture_m02 |-> AsU16(tex_transform.vector[1]),
     texture_m12 |-> AsU16(tex_transform.vector[2]),
     pad |-> 0]

\* z_buffer.rs:74 with an inclusive end
OutsideRangeInclusive(k, range) == k < range[1] \/ k > range[2]

\* z_buffer.rs:74: the object index is outside the half-open object_range
OutsideRange(k, range) == k < range[1] \/ k >= range[2]

\* z_buffer.rs:68: depth == 0, the tile was never written
Untouched(depth) == depth = 0

\* z_buffer.rs:73: (depth - 1) as u32
RecordedObjectIndex(depth) == depth - 1

\* z_buffer.rs:65-86: the loop over buffer.data, from slot i on
RECURSIVE BuildSolidTilesFrom(_, _, _)
BuildSolidTilesFrom(buffer, range, i) ==
    IF i >= Cardinality(DOMAIN buffer)
    THEN <<>>
    ELSE LET depth == buffer[i]
             tile_coords == index_to_coords(i)
             k == RecordedObjectIndex(depth)
             paint_id == ScenePathPaint(k)
             tex_transform == ScenePaintMetadata[paint_id + 1].tex_transform
             rest == BuildSolidTilesFrom(buffer, range, i + 1)
         IN IF Untouched(depth) \/ OutsideRange(k, range)
            THEN rest
            ELSE <<SolidTileBatchPrimitiveNew(
                      <<tile_coords[1] + TileRectOrigin[1],
                        tile_coords[2] + TileRectOrigin[2]>>,
                      AsU16(k), tex_transform)>> \o rest

\* z_buffer.rs:60-87 with the counters taken out of the buffer as they are read
BuildSolidTilesDraining(range) ==
    /\ object_range = <<>>
    /\ ActiveCalls = {}
    /\ object_range' = range
    /\ solid_tiles' = BuildSolidTilesFrom(data, range, 0)
    /\ data' = [t \in TileIndices |-> 0]
    /\ UNCHANGED <<overflow_checks, pc, tile_index, object_index, old_depth,
                   new_depth, prior, invoked, ncalls, nreturned, last_test, pvars, kvars,
                   ovars>>

\* z_buffer.rs:60-87. The pipeline calls it once per frame, after every writer
\* has finished; the buffer is discarded afterwards.
BuildSolidTiles(range) ==
    /\ object_range = <<>>
    /\ ActiveCalls = {}
    /\ object_range' = range
    /\ solid_tiles' = BuildSolidTilesFrom(data, range, 0)
    /\ UNCHANGED <<data, overflow_checks, pc, tile_index, object_index, old_depth,
                   new_depth, prior, invoked, ncalls, nreturned, last_test, pvars, kvars,
                   ovars>>

\* no update, test or build has been called yet
ZLocalsInit ==
    /\ pc = [w \in Workers |-> "idle"]
    /\ tile_index = [w \in Workers |-> 0]
    /\ object_index = [w \in Workers |-> 0]
    /\ old_depth = [w \in Workers |-> 0]
    /\ new_depth = [w \in Workers |-> 0]
    /\ invoked = [t \in TileIndices |-> {}]
    /\ ncalls = [t \in TileIndices |-> 0]
    /\ nreturned = [t \in TileIndices |-> 0]
    /\ last_test = NoTest
    /\ object_range = <<>>
    /\ solid_tiles = <<>>

\* z_buffer.rs:29-34, ZBuffer::new, followed by the updates made before the run
ZInit ==
    /\ prior \in PriorCalls
    /\ data = prior
    /\ overflow_checks \in BOOLEAN
    /\ ZLocalsInit

(***************************************************************************)
(* Palette::push_paint.                                                    *)
(***************************************************************************)
\* Paint::Color(ColorU { r, g, b, a }); equality is the derived, fieldwise one
Color(r, g, b, a) == [r |-> r, g |-> g, b |-> b, a |-> a]

\* u8::MAX + 1: the channels of a ColorU are u8
U8Modulus == 256

\* the i-th (from 0) of the distinct opaque colors a long scene pushes first
PrefillPaint(i) == Color(i \div U8Modulus, i % U8Modulus, 0, U8Modulus - 1)

\* the position of such a color among them
PrefillIndex(paint) == paint.r * U8Modulus + paint.g

\* paint is one of the colors pushed before the run
InPrefill(paint) ==
    /\ paint.b = 0 /\ paint.a = U8Modulus - 1
    /\ PrefillIndex(paint) < prefilled

\* the paints pushed in the run: two of the scene's first colors, and colors
\* that differ from them and from each other only in blue or in alpha
PushedPaints ==
    { PrefillPaint(0), PrefillPaint(1),
      Color(0, 0, 1, U8Modulus - 1), Color(0, 0, 1, U8Modulus - 2), Color(0, 0, 1, 0) }

\* the numbers of distinct paints already in the palette when the run starts
PrefilledLengths == {0, U16Max}

\* The palette holds the `prefilled` colors PrefillPaint(0 .. prefilled-1), pushed
\* in that order before the run, and then what the run pushes.  Only the latter
\* part of the list and of the map is kept in `paints` and `cache`; the former is
\* read through the three operators below.

\* self.paints.len()
PaintsLen == prefilled + Len(paints)

\* self.paints[i], for i in 0 .. PaintsLen-1
PaintAt(i) == IF i < prefilled THEN PrefillPaint(i) ELSE paints[i - prefilled + 1]

\* the keys of self.cache pushed in the run
CacheKeys == DOMAIN cache

\* self.cache[paint], for a key of the map
CacheAt(paint) == IF InPrefill(paint) THEN PrefillIndex(paint) ELSE cache[paint]

\* paint.rs:130 without the narrowing; C7, C8 and C9 hold with this in place of
\* PaintIdOfLen
PaintIdWide(len) == len

\* paint.rs:130: PaintId(self.paints.len() as u16)
PaintIdOfLen(len) == len % U16Modulus

\* paint.rs:126: self.cache.get(paint) is Some
CacheHit(paint) == InPrefill(paint) \/ paint \in CacheKeys

\* paint.rs:131: self.cache.insert(paint, paint_id)
CacheInsert(map, paint, paint_id) ==
    [q \in DOMAIN map \cup {paint} |-> IF q = paint THEN paint_id ELSE map[q]]

\* paint.rs:125-134
PushPaint(paint) ==
    /\ Len(push_log) < MaxPushes
    /\ IF CacheHit(paint)
       THEN /\ push_log' = Append(push_log, <<paint, CacheAt(paint)>>)
            /\ UNCHANGED <<paints, cache>>
       ELSE LET paint_id == PaintIdOfLen(PaintsLen) IN
            /\ cache' = CacheInsert(cache, paint, paint_id)
            /\ paints' = Append(paints, paint)
            /\ push_log' = Append(push_log, <<paint, paint_id>>)
    /\ UNCHANGED <<prefilled, zvars, kvars, ovars>>

\* paint.rs:60-62, Palette::new, followed by the pushes made before the run
PaletteInit ==
    /\ prefilled \in PrefilledLengths
    /\ paints = <<>>
    /\ cache = <<>>
    /\ push_log = <<>>

\* paint.rs:60-62: an empty palette, left alone
PaletteIdle ==
    /\ prefilled = 0
    /\ paints = <<>>
    /\ cache = <<>>
    /\ push_log = <<>>

(***************************************************************************)
(* SolidColorTileBuilder::allocate.                                        *)
(***************************************************************************)
\* paint.rs:25
SOLID_COLOR_TILE_LENGTH == 16

\* paint.rs:26
MAX_SOLID_COLORS_PER_TILE == SOLID_COLOR_TILE_LENGTH * SOLID_COLOR_TILE_LENGTH

\* the rectangles at origins a and b, of sizes sa and sb, share a texel
Overlap(a, sa, b, sb) ==
    /\ a[1] < b[1] + sb /\ b[1] < a[1] + sa
    /\ a[2] < b[2] + sb /\ b[2] < a[2] + sa

\* where the TextureAllocator may place a region of the solid color tile's size
AllocatorOrigins ==
    { <<0, 0>>,
      <<SOLID_COLOR_TILE_LENGTH \div 2, SOLID_COLOR_TILE_LENGTH \div 2>>,
      <<PAINT_TEXTURE_LENGTH - SOLID_COLOR_TILE_LENGTH,
        PAINT_TEXTURE_LENGTH - SOLID_COLOR_TILE_LENGTH>> }

\* TextureAllocator::allocate: the origins it may answer, each a region inside
\* the texture that overlaps no region granted before; none when it is exhausted
AllocatorFree(regions) ==
    { o \in AllocatorOrigins :
        \A i \in 1 .. Len(regions) :
            ~Overlap(o, SOLID_COLOR_TILE_LENGTH, regions[i], SOLID_COLOR_TILE_LENGTH) }

\* paint.rs:200-201 with the row taken modulo as well
SubtileOriginSameRow(next_index) ==
    <<next_index % SOLID_COLOR_TILE_LENGTH, next_index % SOLID_COLOR_TILE_LENGTH>>

\* paint.rs:200-201: row-major placement inside the tile
SubtileOrigin(next_index) ==
    <<next_index % SOLID_COLOR_TILE_LENGTH, next_index \div SOLID_COLOR_TILE_LENGTH>>

\* paint.rs:207 with the tile closed one call late
TileFullLate(next_index) == next_index = MAX_SOLID_COLORS_PER_TILE + 1

\* paint.rs:207: tile_full = data.next_index == MAX_SOLID_COLORS_PER_TILE
TileFull(next_index) == next_index = MAX_SOLID_COLORS_PER_TILE

\* paint.rs:197-215: the rest of allocate, once a tile `opened` is open
AllocateFrom(opened) ==
    LET subtile_origin == SubtileOrigin(opened.next_index)
        location == <<opened.tile_location[1] + subtile_origin[1],
                      opened.tile_location[2] + subtile_origin[2]>>
        next_index == opened.next_index + 1
    IN
    /\ locations' = Append(locations, location)
    /\ builder' = IF TileFull(next_index)
                  THEN <<>>
                  ELSE <<[tile_location |-> opened.tile_location,
                          next_index |-> next_index]>>

\* paint.rs:187-215: what one call does to the builder and to the allocator
AllocateCall ==
    IF builder = <<>>
    THEN IF AllocatorFree(granted) = {}
         THEN \* the allocator is exhausted: expect() panics
              /\ allocate_failed' = TRUE
              /\ UNCHANGED <<builder, granted, locations>>
         ELSE \E origin \in AllocatorFree(granted) :
                 /\ granted' = Append(granted, origin)
                 /\ AllocateFrom([tile_location |-> origin, next_index |-> 0])
                 /\ UNCHANGED allocate_failed
    ELSE /\ AllocateFrom(builder[1])
         /\ UNCHANGED <<granted, allocate_failed>>

\* paint.rs:187-215, called on its own
Allocate ==
    /\ ~allocate_failed
    /\ Len(locations) < MaxAllocations
    /\ AllocateCall
    /\ UNCHANGED <<zvars, pvars, ovars>>

\* paint.rs:183-185, SolidColorTileBuilder::new, and a fresh TextureAllocator
PackerInit ==
    /\ builder = <<>>
    /\ granted = <<>>
    /\ locations = <<>>
    /\ allocate_failed = FALSE

(***************************************************************************)
(* Gradient::add_color_stop and Gradient::sample (content/src/gradient.rs). *)
(*                                                                         *)
(* Offsets and sample positions are f32; the model draws them from the     *)
(* multiples of one quarter, written as numbers of quarters, for which the *)
(* comparisons and the subtraction of sample are exact.                    *)
(***************************************************************************)
\* stops held by one gradient in a run
MaxStops == 3

\* the colors of the stops: black, red, white, all opaque
GradientColors ==
    { Color(0, 0, 0, U8Modulus - 1),
      Color(U8Modulus - 1, 0, 0, U8Modulus - 1),
      Color(U8Modulus - 1, U8Modulus - 1, U8Modulus - 1, U8Modulus - 1) }

\* the offsets of the stops, in quarters: 0, 0.5 and 1
GradientOffsets == {0, 2, 4}

\* ColorStop { color, offset }
ColorStop(color, offset) == [color |-> color, offset |-> offset]

ColorStops == { ColorStop(c, o) : c \in GradientColors, o \in GradientOffsets }

\* the arguments of sample, in quarters: from -0.25 to 1.25
SampleTs == (0 - 1) .. 5

\* ColorU::transparent_black()
TransparentBlack == Color(0, 0, 0, 0)

\* f32::partial_cmp / u8::cmp on numbers that are not NaN
PartialCmp(a, b) == IF a < b THEN "Less" ELSE IF a > b THEN "Greater" ELSE "Equal"

\* the derived comparison of ColorU: its fields r, g, b, a in that order
ColorCmp(c, d) ==
    IF c.r # d.r THEN PartialCmp(c.r, d.r)
    ELSE IF c.g # d.g THEN PartialCmp(c.g, d.g)
    ELSE IF c.b # d.b THEN PartialCmp(c.b, d.b)
    ELSE PartialCmp(c.a, d.a)

\* a comparison of the offsets alone; C12 holds with this in place of StopCmp
StopCmpByOffset(s, u) == PartialCmp(s.offset, u.offset)

\* gradient.rs:26-30: #[derive(PartialOrd)] on ColorStop compares the fields in
\* the order of their declaration: color first, offset second
StopCmp(s, u) ==
    IF ColorCmp(s.color, u.color) # "Equal"
    THEN ColorCmp(s.color, u.color)
    ELSE PartialCmp(s.offset, u.offset)

\* [T]::binary_search_by, as gradient.rs:82-84 calls it; orderings[i + 1] is what
\* the closure answers for element i.  <<"Ok", index>> of an element the closure
\* calls Equal, or <<"Err", index>> of the insertion point
BinarySearchBy(orderings) ==
    LET RECURSIVE Narrow(_, _)
        Narrow(base, size) ==
            IF size > 1
            THEN LET half == size \div 2
                     mid == base + half
                 IN Narrow(IF orderings[mid + 1] = "Greater" THEN base ELSE mid,
                           size - half)
            ELSE base
    IN IF Len(orderings) = 0
       THEN <<"Err", 0>>
       ELSE LET base == Narrow(0, Len(orderings))
                cmp == orderings[base + 1]
            IN IF cmp = "Equal"
               THEN <<"Ok", base>>
               ELSE <<"Err", base + (IF cmp = "Less" THEN 1 ELSE 0)>>

\* Vec::insert(index, value)
VecInsert(array, index, value) ==
    SubSeq(array, 1, index) \o <<value>> \o SubSeq(array, index + 1, Len(array))

\* SortedVector::push: binary search for the value by the element type's
\* comparison, insertion at the index found
SortedVectorPush(array, value) ==
    LET orderings == [i \in 1 .. Len(array) |-> StopCmp(array[i], value)]
    IN VecInsert(array, BinarySearchBy(orderings)[2], value)

\* gradient.rs:62-65
AddColorStop(stop) ==
    /\ Len(stops) < MaxStops
    /\ stops' = SortedVectorPush(stops, stop)
    /\ added' = Append(added, stop)
    /\ UNCHANGED <<sampled, to_i32, zvars, pvars, kvars, bvars, qvars, xvars>>

\* F32x4::to_i32x4 of the fraction n / d, d > 0: towards zero, or to the nearest
\* integer with ties to even, as the build's instruction does it
ToI32(n, d) ==
    LET floor == n \div d
        rem == n - floor * d
    IN IF to_i32 = "truncate"
       THEN IF n >= 0 \/ rem = 0 THEN floor ELSE floor + 1
       ELSE IF 2 * rem < d THEN floor
            ELSE IF 2 * rem > d THEN floor + 1
            ELSE IF floor % 2 = 0 THEN floor ELSE floor + 1

\* `as u8` of an i32: the low 8 bits
AsU8(x) == x % U8Modulus

\* gradient.rs:95-98 for one channel: a.to_f32().lerp(b.to_f32(), num / den).to_u8(),
\* that is a + (b - a) * num / den brought back to 8 bits
LerpChannel(a, b, num, den) ==
    LET n == a * den + (b - a) * num
    IN AsU8(IF den > 0 THEN ToI32(n, den) ELSE ToI32(0 - n, 0 - den))

\* gradient.rs:95-98
LerpColor(c, d, num, den) ==
    Color(LerpChannel(c.r, d.r, num, den), LerpChannel(c.g, d.g, num, den),
          LerpChannel(c.b, d.b, num, den), LerpChannel(c.a, d.a, num, den))

\* gradient.rs:82-84: the index the binary search answers, found or not
LowerIndex(array, t) ==
    LET orderings == [i \in 1 .. Len(array) |-> PartialCmp(array[i].offset, t)]
    IN BinarySearchBy(orderings)[2]

\* gradient.rs:85: cmp::min(lower_index + 1, self.stops.len() - 1)
UpperIndex(array, lower_index) ==
    IF lower_index + 1 < Len(array) - 1 THEN lower_index + 1 ELSE Len(array) - 1

\* sample returned `color`
Returns(color) == [panicked |-> FALSE, color |-> color]

\* sample panicked: index out of bounds
Panics == [panicked |-> TRUE, color |-> TransparentBlack]

\* gradient.rs:77-99: the color sample returns, or the panic of indexing
\* self.stops.array out of bounds
SampleResult(array, t) ==
    IF Len(array) = 0
    THEN Returns(TransparentBlack)
    ELSE LET lower_index == LowerIndex(array, t)
             upper_index == UpperIndex(array, lower_index)
         IN IF lower_index >= Len(array)
            THEN Panics
            ELSE LET lower_stop == array[lower_index + 1]
                     upper_stop == array[upper_index + 1]
                     denom == upper_stop.offset - lower_stop.offset
                 IN IF denom = 0
                    THEN Returns(lower_stop.color)
                    ELSE Returns(LerpColor(lower_stop.color, upper_stop.color,
                                           t - lower_stop.offset, denom))

NoSample == [called |-> FALSE, t |-> 0, result |-> Returns(TransparentBlack)]

\* gradient.rs:77-99
Sample(t) ==
    /\ sampled' = [called |-> TRUE, t |-> t, result |-> SampleResult(stops, t)]
    /\ UNCHANGED <<stops, added, to_i32, zvars, pvars, kvars, bvars, qvars, xvars>>

\* gradient.rs:58-60, Gradient::new
GradientInit ==
    /\ stops = <<>>
    /\ added = <<>>
    /\ sampled = NoSample
    /\ to_i32 \in {"truncate", "nearest"}

\* gradient.rs:58-60: a gradient without stops, left alone
GradientIdle ==
    /\ stops = <<>>
    /\ added = <<>>
    /\ sampled = NoSample
    /\ to_i32 = "nearest"

(***************************************************************************)
(* Paint::is_opaque, Paint::is_fully_transparent, Palette::build_paint_info. *)
(***************************************************************************)
\* Paint::Gradient(gradient): a gradient paint of one opaque stop
GradientPaint ==
    [line |-> <<0, 0, 1, 1>>,
     stops |-> <<ColorStop(Color(0, 0, 0, U8Modulus - 1), 0)>>]

\* the variant of a Paint: Paint::Gradient, as opposed to Paint::Color
IsGradient(p) == "stops" \in DOMAIN p

\* ColorU::is_opaque: the alpha is full
ColorIsOpaque(color) == color.a = U8Modulus - 1

\* ColorU::is_fully_transparent: the alpha is zero
ColorIsFullyTransparent(color) == color.a = 0

\* paint.rs:76-83
PaintIsOpaque(p) ==
    IF IsGradient(p)
    THEN \A i \in 1 .. Len(p.stops) : ColorIsOpaque(p.stops[i].color)
    ELSE ColorIsOpaque(p)

\* paint.rs:85-92: the Color arm calls color.is_opaque()
PaintIsFullyTransparent(p) ==
    IF IsGradient(p)
    THEN \A i \in 1 .. Len(p.stops) : ColorIsFullyTransparent(p.stops[i].color)
    ELSE ColorIsOpaque(p)

NoQuery == [method |-> "none", result |-> FALSE]

\* the paints asked: a color at every alpha, and gradients of opaque, of
\* transparent and of mixed stops
QueriedPaints ==
    { Color(0, 0, 1, a) : a \in 0 .. (U8Modulus - 1) }
        \cup { GradientPaint,
               [line |-> <<0, 0, 1, 1>>, stops |-> <<ColorStop(TransparentBlack, 0)>>],
               [line |-> <<0, 0, 1, 1>>,
                stops |-> <<ColorStop(TransparentBlack, 0),
                            ColorStop(Color(0, 0, 0, U8Modulus - 1), 4)>>] }

\* paint.rs:76-83, called on self_paint
IsOpaque ==
    /\ queried' = [method |-> "is_opaque", result |-> PaintIsOpaque(self_paint)]
    /\ UNCHANGED <<self_paint, zvars, pvars, kvars, gvars, bvars, xvars>>

\* paint.rs:85-92, called on self_paint
IsFullyTransparent ==
    /\ queried' = [method |-> "is_fully_transparent",
                   result |-> PaintIsFullyTransparent(self_paint)]
    /\ UNCHANGED <<self_paint, zvars, pvars, kvars, gvars, bvars, xvars>>

\* a paint of the scene
QueryInit ==
    /\ self_paint \in QueriedPaints
    /\ queried = NoQuery

\* paint.rs:165-166 with the axes exchanged
TexelIndexTransposed(position) == position[1] * PAINT_TEXTURE_LENGTH + position[2]

\* paint.rs:165-166: the texel put_pixel writes, its byte index divided by 4
TexelIndex(position) == position[2] * PAINT_TEXTURE_LENGTH + position[1]

\* paint.rs:164-171: put_pixel
PutPixel(buffer, position, color) ==
    [q \in DOMAIN buffer \cup {TexelIndex(position)} |->
        IF q = TexelIndex(position) THEN color ELSE buffer[q]]

\* the numbers of colors PrefillPaint(0 ..) in the palettes that are built: none,
\* a few, one more than a tile holds, one more than two tiles hold
BuiltLengths ==
    {0, 2, MAX_SOLID_COLORS_PER_TILE + 1, 2 * MAX_SOLID_COLORS_PER_TILE + 1}

\* the paints pushed after them: none, a translucent color, a gradient
BuiltTails == { <<>>, <<Color(0, 0, 1, 0)>>, <<GradientPaint>> }

\* paint.rs:125-134: the palette push_paint has filled with the paints of a scene
BuiltPaletteInit ==
    /\ prefilled \in BuiltLengths
    /\ paints \in BuiltTails
    /\ cache = [q \in {paints[i] : i \in 1 .. Len(paints)} |-> PaintIdOfLen(prefilled)]
    /\ push_log = <<>>

\* paint.rs:137-140: the allocator, the zeroed texels, the metadata and the
\* tile builder of one build_paint_info call
BuildPaintInfoBegin ==
    /\ build_pc = "idle"
    /\ build_pc' = "loop"
    /\ texels' = <<>>
    /\ metadata' = <<>>
    /\ builder' = <<>>
    /\ granted' = <<>>
    /\ locations' = <<>>
    /\ allocate_failed' = FALSE
    /\ UNCHANGED <<zvars, pvars, gvars, qvars, xvars>>

\* paint.rs:142-159: one iteration of the loop over self.paints
BuildPaintInfoPaint ==
    LET p == PaintAt(Len(metadata)) IN
    /\ build_pc = "loop"
    /\ Len(metadata) < PaintsLen
    /\ IF IsGradient(p)
       THEN \* unimplemented!()
            /\ build_pc' = "panicked"
            /\ UNCHANGED <<texels, metadata, kvars>>
       ELSE /\ AllocateCall
            /\ IF allocate_failed'
               THEN /\ build_pc' = "panicked"
                    /\ UNCHANGED <<texels, metadata>>
               ELSE LET origin == locations'[Len(locations')] IN
                    /\ texels' = PutPixel(texels, origin, p)
                    /\ metadata' = Append(metadata,
                                          [tex_transform |-> TexTransform(origin),
                                           is_opaque |-> PaintIsOpaque(p)])
                    /\ UNCHANGED build_pc
    /\ UNCHANGED <<zvars, pvars, gvars, qvars, xvars>>

\* paint.rs:161-162: the loop is over, PaintInfo is returned
BuildPaintInfoReturn ==
    /\ build_pc = "loop"
    /\ Len(metadata) = PaintsLen
    /\ build_pc' = "done"
    /\ UNCHANGED <<texels, metadata, zvars, pvars, kvars, gvars, qvars, xvars>>

(***************************************************************************)
(* From a paint's texel to the primitive of a tile it covers.              *)
(***************************************************************************)
\* the texels of the atlas a solid color may be stored at: those of the
\* antidiagonal, on which either coordinate takes every value
TexelOrigins ==
    { <<x, PAINT_TEXTURE_LENGTH - 1 - x>> : x \in 0 .. (PAINT_TEXTURE_LENGTH - 1) }

\* z_buffer.rs:79-83: the primitive of a solid tile of an object whose paint's
\* color build_paint_info stored at texel_origin
MakePrimitive(tile_coords, k) ==
    /\ primitive' =
          <<SolidTileBatchPrimitiveNew(tile_coords, AsU16(k), TexTransform(texel_origin))>>
    /\ UNCHANGED <<texel_origin, zvars, pvars, kvars, gvars, bvars, qvars>>

\* a solid color stored somewhere in the atlas
PrimitiveInit ==
    /\ texel_origin \in TexelOrigins
    /\ primitive = <<>>

(***************************************************************************)
(* The components a specification leaves alone.                            *)
(***************************************************************************)
\* build_paint_info has not been called
BuildIdle ==
    /\ build_pc = "idle"
    /\ texels = <<>>
    /\ metadata = <<>>

\* no predicate of impl Paint has been asked
QueryIdle ==
    /\ self_paint = TransparentBlack
    /\ queried = NoQuery

\* no primitive has been made
PrimitiveIdle ==
    /\ texel_origin = <<0, 0>>
    /\ primitive = <<>>

(***************************************************************************)
(* Specifications.                                                         *)
(***************************************************************************)
\* z_buffer.rs:29-34: a fresh z-buffer, left alone
ZIdle ==
    /\ prior = [t \in TileIndices |-> 0]
    /\ data = prior
    /\ overflow_checks = FALSE
    /\ ZLocalsInit

ZNext ==
    \/ \E w \in Workers, coords \in TileCoords, k \in ObjectIndices :
          UpdateLoad(w, coords, k)
    \/ \E w \in Workers : UpdateCas(w)
    \/ \E coords \in TileCoords, k \in TestIndices : Test(coords, k)

ZBufferInit ==
    ZInit /\ PaletteIdle /\ PackerInit /\ GradientIdle /\ BuildIdle /\ QueryIdle
          /\ PrimitiveIdle

\* the workers' updates, with tests running beside them
ZBufferSpec == ZBufferInit /\ [][ZNext]_vars

SolidTilesNext ==
    \/ \E w \in Workers, coords \in TileCoords, k \in ObjectIndices :
          object_range = <<>> /\ UpdateLoad(w, coords, k)
    \/ \E w \in Workers : UpdateCas(w)
    \/ \E range \in ObjectRanges : BuildSolidTiles(range)

\* the workers' updates, then the frame's build_solid_tiles
SolidTilesSpec == ZBufferInit /\ [][SolidTilesNext]_vars

UpdatesNext ==
    \/ \E w \in Workers, coords \in TileCoords, k \in ObjectIndices :
          UpdateLoad(w, coords, k)
    \/ \E w \in Workers : UpdateCas(w)

\* the workers' updates, every worker in the middle of a call being scheduled
\* again sooner or later
UpdatesFairSpec ==
    /\ ZBufferInit
    /\ [][UpdatesNext]_vars
    /\ \A w \in Workers : WF_vars(UpdateCas(w))

\* the object index the frame's tests ask about
FrameTestIndices == {1}

FrameNext ==
    \/ \E w \in Workers, coords \in TileCoords, k \in ObjectIndices :
          object_range = <<>> /\ UpdateLoad(w, coords, k)
    \/ \E w \in Workers : UpdateCas(w)
    \/ \E coords \in TileCoords, k \in FrameTestIndices :
          object_range = <<>> /\ Test(coords, k)
    \/ \E range \in ObjectRanges : BuildSolidTiles(range)

\* a frame: the workers' updates with tests beside them, then build_solid_tiles
FrameSpec == ZBufferInit /\ [][FrameNext]_vars

PaletteNext == \E paint \in PushedPaints : PushPaint(paint)

PaletteSpecInit ==
    PaletteInit /\ ZIdle /\ PackerInit /\ GradientIdle /\ BuildIdle /\ QueryIdle
                /\ PrimitiveIdle

\* push_paint calls on a palette, sequential as its callers must make them
PaletteSpec == PaletteSpecInit /\ [][PaletteNext]_vars

PackerNext == Allocate

PackerSpecInit ==
    PackerInit /\ ZIdle /\ PaletteIdle /\ GradientIdle /\ BuildIdle /\ QueryIdle
               /\ PrimitiveIdle

\* allocate calls on one SolidColorTileBuilder and one TextureAllocator
PackerSpec == PackerSpecInit /\ [][PackerNext]_vars

GradientNext ==
    \/ \E stop \in ColorStops : AddColorStop(stop)
    \/ \E t \in SampleTs : Sample(t)

GradientSpecInit ==
    GradientInit /\ ZIdle /\ PaletteIdle /\ PackerInit /\ BuildIdle /\ QueryIdle
                 /\ PrimitiveIdle

\* one gradient: stops are added to it and it is sampled
GradientSpec == GradientSpecInit /\ [][GradientNext]_vars

QueryNext ==
    \/ IsOpaque
    \/ IsFullyTransparent

QuerySpecInit ==
    QueryInit /\ ZIdle /\ PaletteIdle /\ PackerInit /\ GradientIdle /\ BuildIdle
              /\ PrimitiveIdle

\* the predicates of impl Paint, asked of one paint
QuerySpec == QuerySpecInit /\ [][QueryNext]_vars

PrimitiveNext ==
    \E tile_coords \in TileCoords, k \in ObjectIndices : MakePrimitive(tile_coords, k)

PrimitiveSpecInit ==
    PrimitiveInit /\ ZIdle /\ PaletteIdle /\ PackerInit /\ GradientIdle /\ BuildIdle
                  /\ QueryIdle

\* primitives made for the tiles of an object painted with one solid color
PrimitiveSpec == PrimitiveSpecInit /\ [][PrimitiveNext]_vars

BuildNext ==
    \/ BuildPaintInfoBegin
    \/ BuildPaintInfoPaint
    \/ BuildPaintInfoReturn

BuildSpecInit ==
    BuiltPaletteInit /\ BuildIdle /\ PackerInit /\ ZIdle /\ GradientIdle /\ QueryIdle
                     /\ PrimitiveIdle

\* one build_paint_info call on a palette
BuildSpec == BuildSpecInit /\ [][BuildNext]_vars

(***************************************************************************)
(* Properties of the z-buffer.                                             *)
(***************************************************************************)
\* an update of tile t with an object index >= k has been invoked: before the
\* run (the calls 0 .. prior[t]-1) or in it
InvokedAtLeast(t, k) == prior[t] - 1 >= k \/ \E j \in invoked[t] : j >= k

\* this step is the return of worker w's update(coords, k)
UpdateReturns(w, coords, k) ==
    \/ UpdateLoad(w, coords, k) /\ pc'[w] = "idle"
    \/ /\ pc[w] = "cas"
       /\ tile_index[w] = coords_to_index_unchecked(coords)
       /\ object_index[w] = k
       /\ UpdateCas(w)
       /\ pc'[w] = "idle"

\* C1: under any interleaving of the loads and compare-and-swaps of concurrent
\* update calls, no step decreases a tile's counter.
C1_CounterNeverDecreases == [][\A t \in TileIndices : data'[t] >= data[t]]_vars

\* C1's case: a compare-and-swap is pending on a tile whose counter another
\* worker has raised since this worker's load.
C1_Witness ==
    \E w \in Workers : pc[w] = "cas" /\ data[tile_index[w]] > old_depth[w]

\* the update calls on tile t carried the indices 0 .. N-1, once each, and have
\* all returned
AllCallsReturned(t) ==
    /\ ncalls[t] > 0
    /\ nreturned[t] = ncalls[t]
    /\ invoked[t] = prior[t] .. (prior[t] + ncalls[t] - 1)

\* C2: once N update calls carrying the object indices 0 .. N-1 on an initially
\* empty tile have all returned, the tile's counter is N.
C2_FinalCounterIsN ==
    \A t \in TileIndices : AllCallsReturned(t) => data[t] = prior[t] + ncalls[t]

\* C3: a test that returned false was preceded by the invocation of an update of
\* that tile with an index at least as large, and from then on the tile keeps
\* answering false to the same test.
C3_TestNeverOverReports ==
    (last_test.called /\ ~last_test.result) =>
        LET t == coords_to_index_unchecked(last_test.coords) IN
        /\ InvokedAtLeast(t, last_test.object_index)
        /\ ~ZTest(data[t], last_test.object_index)

\* C3's case: a test has returned false on a tile, an update of that tile is in
\* flight beside it and the counter has moved on past the tested index.
C3_Witness ==
    /\ last_test.called /\ ~last_test.result
    /\ \E w \in Workers : /\ pc[w] = "cas"
                          /\ tile_index[w] = coords_to_index_unchecked(last_test.coords)
    /\ data[coords_to_index_unchecked(last_test.coords)] > last_test.object_index + 1

\* C4: right after update(coords, k), the tile's only update, returns, test(k) and
\* test(k-1) answer false and test(k+1) answers true.
C4_TestAfterUpdate ==
    [][\A w \in Workers, coords \in TileCoords, k \in ObjectIndices :
         LET t == coords_to_index_unchecked(coords) IN
         (UpdateReturns(w, coords, k) /\ prior[t] = 0 /\ ncalls'[t] = 1) =>
             /\ ~ZTest(data'[t], k)
             /\ (k > 0 => ~ZTest(data'[t], k - 1))
             /\ ZTest(data'[t], k + 1)]_vars

\* C5: an update(coords, k) that ran with no other writer beside it leaves the
\* counter at k + 1 if that is larger than the counter it found, and leaves the
\* counter alone otherwise.
C5_SolitaryUpdate ==
    [][\A w \in Workers, coords \in TileCoords, k \in ObjectIndices :
         LET t == coords_to_index_unchecked(coords) IN
         (/\ UpdateReturns(w, coords, k)
          /\ ActiveCalls \ {w} = {}
          /\ (pc[w] = "cas" => data[t] = old_depth[w])) =>
             data'[t] = Max(data[t], k + 1)]_vars

\* the primitives emitted for tile t
PrimitivesOf(t) ==
    {i \in 1 .. Len(solid_tiles) :
        /\ solid_tiles[i].tile_x = index_to_coords(t)[1] + TileRectOrigin[1]
        /\ solid_tiles[i].tile_y = index_to_coords(t)[2] + TileRectOrigin[2]}

\* tile t was written and its recorded object index lies in the object range
InObjectRange(t) ==
    /\ data[t] # 0
    /\ object_range[1] <= data[t] - 1
    /\ data[t] - 1 < object_range[2]

\* C6: build_solid_tiles emits one primitive, carrying object index c - 1, for
\* each tile whose counter c is not 0 and has c - 1 in the object range, and
\* nothing else.
C6_OnePrimitivePerTileInRange ==
    object_range # <<>> =>
        /\ \A t \in TileIndices :
              IF InObjectRange(t)
              THEN /\ Cardinality(PrimitivesOf(t)) = 1
                   /\ \A i \in PrimitivesOf(t) : solid_tiles[i].object_index = data[t] - 1
              ELSE PrimitivesOf(t) = {}
        /\ Len(solid_tiles) = Cardinality({t \in TileIndices : InObjectRange(t)})

\* C6's case: a build that emitted a primitive for one tile and skipped a written
\* tile whose object index is outside the range.
C6_Witness ==
    /\ object_range # <<>>
    /\ Len(solid_tiles) >= 1
    /\ \E t \in TileIndices : data[t] # 0 /\ ~InObjectRange(t)

\* C17: every update call terminates. A worker inside the retry loop leaves it,
\* given that it keeps being scheduled; and a compare-and-swap is retried only
\* when the counter has been raised, by another call, above the depth this call
\* read last, which the retry then takes up: each retry answers a write of
\* another call.
C17_UpdateTerminates ==
    /\ \A w \in Workers : (pc[w] = "cas") ~> (pc[w] = "idle")
    /\ [][\A w \in Workers :
            (UpdateCas(w) /\ pc'[w] = "cas") =>
                /\ data[tile_index[w]] > old_depth[w]
                /\ old_depth'[w] = data[tile_index[w]]
                /\ data' = data]_vars

\* C17's case: a worker's compare-and-swap is bound to fail and to be retried:
\* another call has raised the counter past the depth the worker read, but not
\* up to the worker's candidate.
C17_Witness ==
    \E w \in Workers :
        /\ pc[w] = "cas"
        /\ old_depth[w] < data[tile_index[w]]
        /\ data[tile_index[w]] < new_depth[w]

\* C18: a step of update(coords, k) changes no counter but that of the tile at
\* coords; test and build_solid_tiles change no counter.
C18_OnlyTheNamedTileChanges ==
    [][/\ \A w \in Workers, coords \in TileCoords, k \in ObjectIndices :
            UpdateLoad(w, coords, k) =>
                /\ data' = data
                /\ pc'[w] = "cas" => tile_index'[w] = coords_to_index_unchecked(coords)
       /\ \A w \in Workers :
            UpdateCas(w) =>
                \A t \in TileIndices \ {tile_index[w]} : data'[t] = data[t]
       /\ \A coords \in TileCoords, k \in FrameTestIndices :
            Test(coords, k) => data' = data
       /\ \A range \in ObjectRanges : BuildSolidTiles(range) => data' = data]_vars

\* C18's case: updates have raised one tile's counter and left the other tile
\* at zero, a test has run, and build_solid_tiles has been called.
C18_Witness ==
    /\ object_range # <<>>
    /\ last_test.called
    /\ \E t, u \in TileIndices : data[t] > prior[t] /\ data[u] = 0 /\ ncalls[u] = 0

(***************************************************************************)
(* Properties of the palette.                                              *)
(***************************************************************************)
\* the paint and the returned PaintId of the i-th push_paint call of the run
PushedPaint(i) == push_log[i][1]

ReturnedId(i) == push_log[i][2]

\* the run has pushed `paint` before
PushedInRun(paint) == \E i \in 1 .. Len(push_log) : PushedPaint(i) = paint

\* the first call of the run that pushed `paint`
FirstPush(paint) ==
    CHOOSE i \in 1 .. Len(push_log) :
        /\ PushedPaint(i) = paint
        /\ \A j \in 1 .. (i - 1) : PushedPaint(j) # paint

\* the PaintId push_paint returned the first time it was given `paint`
FirstId(paint) ==
    IF InPrefill(paint) THEN PrefillIndex(paint) ELSE ReturnedId(FirstPush(paint))

\* the position k of `paint` among the distinct paints, in first-seen order
SeenRank(paint) ==
    IF InPrefill(paint)
    THEN PrefillIndex(paint) + 1
    ELSE prefilled + Cardinality({q \in {PushedPaint(j) : j \in 1 .. FirstPush(paint)} :
                                     ~InPrefill(q)})

\* C7: pushing a paint equal to one pushed before returns the first call's ID and
\* leaves the list and the cache alone; pushes of two different paints return
\* two different IDs.
C7_EqualPaintsShareAnId ==
    /\ [][\A paint \in PushedPaints :
            (PushPaint(paint) /\ (InPrefill(paint) \/ PushedInRun(paint))) =>
                /\ ReturnedId(Len(push_log))' = FirstId(paint)
                /\ UNCHANGED <<paints, cache>>]_vars
    /\ [](\A i \in 1 .. Len(push_log) :
            /\ \A j \in 1 .. Len(push_log) :
                  PushedPaint(i) # PushedPaint(j) => ReturnedId(i) # ReturnedId(j)
            /\ ReturnedId(i) < prefilled => PushedPaint(i) = PrefillPaint(ReturnedId(i)))

\* C8: the k-th distinct paint pushed has ID k - 1, whatever the number of
\* pushes, so that no two distinct paints have the same ID.
C8_IdsFollowFirstSeenOrder ==
    \A i \in 1 .. Len(push_log) :
        /\ ReturnedId(i) = SeenRank(PushedPaint(i)) - 1
        /\ \A j \in 1 .. Len(push_log) :
              ReturnedId(i) = ReturnedId(j) => PushedPaint(i) = PushedPaint(j)

\* C9: the cache and the list agree: every cache entry's ID indexes its own
\* paint in the list, every list element is a key of the cache, and the two have
\* as many entries.  (The entries pushed before the run agree by construction:
\* entry i of the list is PrefillPaint(i), which the cache maps to i.)
C9_CacheAgreesWithList ==
    /\ \A q \in CacheKeys : CacheAt(q) < PaintsLen /\ PaintAt(CacheAt(q)) = q
    /\ \A i \in prefilled .. (PaintsLen - 1) : PaintAt(i) \in CacheKeys
    /\ Cardinality(CacheKeys) = Len(paints)

(***************************************************************************)
(* Properties of the gradient.                                             *)
(***************************************************************************)
\* the list is in ascending order of offset
SortedByOffset(array) ==
    \A i \in 1 .. (Len(array) - 1) : array[i].offset <= array[i + 1].offset

\* C12: after any sequence of add_color_stop calls the stop list is in ascending
\* order of offset.
C12_StopsAscendByOffset == SortedByOffset(stops)

\* C13: on a non-empty gradient whose stops are sorted by offset, sample(t) returns
\* the first stop's color for t below the first offset and the last stop's color
\* for t above the last offset; it does not index past the end of the list.
C13_SampleClampsOutside ==
    [][\A t \in SampleTs :
         (Sample(t) /\ Len(stops) > 0 /\ SortedByOffset(stops)) =>
             /\ t < stops[1].offset => sampled'.result = Returns(stops[1].color)
             /\ t > stops[Len(stops)].offset =>
                    sampled'.result = Returns(stops[Len(stops)].color)]_vars

\* C14: on a gradient whose stops are sorted by offset, sample(t) with t strictly
\* between the offsets of two adjacent stops returns the interpolation of those
\* two stops at t, rounded to integers; halfway between them that is the rounded
\* average of their colors.
C14_SampleInterpolatesBracket ==
    [][\A t \in SampleTs :
         (Sample(t) /\ SortedByOffset(stops)) =>
             \A i \in 1 .. (Len(stops) - 1) :
                 (stops[i].offset < t /\ t < stops[i + 1].offset) =>
                     sampled'.result =
                         Returns(LerpColor(stops[i].color, stops[i + 1].color,
                                           t - stops[i].offset,
                                           stops[i + 1].offset - stops[i].offset))]_vars

\* C15: on a gradient of two stops added at the same offset, sample at that
\* offset returns the color of the stop added first.
C15_SampleAtSharedOffset ==
    [][\A t \in SampleTs :
         (/\ Sample(t)
          /\ Len(added) = 2
          /\ added[1].offset = t /\ added[2].offset = t) =>
             sampled'.result = Returns(added[1].color)]_vars

(***************************************************************************)
(* Properties of the paint-info build.                                     *)
(***************************************************************************)
\* the atlas texel whose centre the translation of a tex_transform points at
TexelOf(tex_transform) ==
    <<(tex_transform.vector[1] - PAINT_TEXTURE_SCALE \div 2) \div PAINT_TEXTURE_SCALE,
      (tex_transform.vector[2] - PAINT_TEXTURE_SCALE \div 2) \div PAINT_TEXTURE_SCALE>>

\* the row-major position of a texel in the atlas
AtlasPosition(origin) == origin[2] * PAINT_TEXTURE_LENGTH + origin[1]

\* C16: when build_paint_info returns, the metadata has one entry per paint, in
\* the paints' order; entry i has a zero matrix and the translation
\* origin * 64 + 32 of a texel inside the atlas that holds the RGBA of paint i and
\* of no other paint, and is_opaque tells whether paint i's alpha is full; the
\* texels written are exactly those, every other texel is still zero.
C16_MetadataAlignedWithPaints ==
    build_pc = "done" =>
        /\ Len(metadata) = PaintsLen
        /\ \A i \in 0 .. (PaintsLen - 1) :
              LET tex_transform == metadata[i + 1].tex_transform
                  origin == TexelOf(tex_transform)
              IN /\ tex_transform.matrix = <<0, 0, 0, 0>>
                 /\ origin[1] \in 0 .. (PAINT_TEXTURE_LENGTH - 1)
                 /\ origin[2] \in 0 .. (PAINT_TEXTURE_LENGTH - 1)
                 /\ tex_transform.vector[1] =
                        origin[1] * PAINT_TEXTURE_SCALE + PAINT_TEXTURE_SCALE \div 2
                 /\ tex_transform.vector[2] =
                        origin[2] * PAINT_TEXTURE_SCALE + PAINT_TEXTURE_SCALE \div 2
                 /\ AtlasPosition(origin) \in DOMAIN texels
                 /\ texels[AtlasPosition(origin)] = PaintAt(i)
                 /\ metadata[i + 1].is_opaque = (PaintAt(i).a = U8Modulus - 1)
                 /\ \A j \in 0 .. (PaintsLen - 1) :
                       j # i => TexelOf(metadata[j + 1].tex_transform) # origin
        /\ Cardinality(DOMAIN texels) = PaintsLen

\* C16's case: a build has returned for a palette that fills one tile and goes
\* on into a second one, and that holds a color that is not opaque.
C16_Witness ==
    /\ build_pc = "done"
    /\ Len(granted) = 2
    /\ Len(metadata) > MAX_SOLID_COLORS_PER_TILE
    /\ ~metadata[Len(metadata)].is_opaque

\* C19: is_fully_transparent on a solid color answers true exactly when the
\* color's alpha is 0, so that no solid color is reported both opaque and fully
\* transparent.
C19_FullyTransparentIsAlphaZero ==
    (~IsGradient(self_paint) /\ queried.method = "is_fully_transparent") =>
        /\ queried.result = (self_paint.a = 0)
        /\ queried.result => ~PaintIsOpaque(self_paint)

\* C20: for a texel anywhere in the 1024 x 1024 atlas the translation
\* origin * 64 + 32 lies in 0 .. 65535, so the primitive's texture_m02 and
\* texture_m12 are that translation, unchanged by the narrowing to 16 bits, and
\* its four matrix fields are 0.
C20_TranslationFitsU16 ==
    primitive # <<>> =>
        LET vector == <<texel_origin[1] * PAINT_TEXTURE_SCALE + PAINT_TEXTURE_SCALE \div 2,
                        texel_origin[2] * PAINT_TEXTURE_SCALE + PAINT_TEXTURE_SCALE \div 2>>
        IN /\ vector[1] \in 0 .. U16Max
           /\ vector[2] \in 0 .. U16Max
           /\ primitive[1].texture_m02 = vector[1]
           /\ primitive[1].texture_m12 = vector[2]
           /\ primitive[1].texture_m00 = 0 /\ primitive[1].texture_m10 = 0
           /\ primitive[1].texture_m01 = 0 /\ primitive[1].texture_m11 = 0

\* C20's case: a primitive for a paint stored in the last column of the atlas,
\* where the translation is the largest.
C20_Witness ==
    /\ primitive # <<>>
    /\ texel_origin[1] = PAINT_TEXTURE_LENGTH - 1
    /\ primitive[1].texture_m02 = U16Max - PAINT_TEXTURE_SCALE \div 2 + 1

(***************************************************************************)
(* Properties of the solid color tile packer.                              *)
(***************************************************************************)
\* the 1x1 location at origin `location` lies inside the 16x16 region at `origin`
InsideRegion(location, origin) ==
    /\ origin[1] <= location[1] /\ location[1] < origin[1] + SOLID_COLOR_TILE_LENGTH
    /\ origin[2] <= location[2] /\ location[2] < origin[2] + SOLID_COLOR_TILE_LENGTH

\* C10: the location a call of allocate returns differs from (so, being 1x1,
\* does not overlap) every location returned before it, and lies inside a region
\* the allocator granted.  Every call's return is the latest one in some state.
C10_LocationsDistinctAndGranted ==
    Len(locations) > 0 =>
        LET location == locations[Len(locations)] IN
        /\ \A j \in 1 .. (Len(locations) - 1) : locations[j] # location
        /\ \E g \in 1 .. Len(granted) : InsideRegion(location, granted[g])

\* C10's case: allocate has filled one tile and returned a location of a second.
C10_Witness ==
    /\ Len(locations) > MAX_SOLID_COLORS_PER_TILE
    /\ Len(granted) >= 2
    /\ InsideRegion(locations[Len(locations)], granted[2])

\* the allocate calls made so far: those that returned a location and the one,
\* if any, that panicked on an exhausted allocator
AllocateCalls == Len(locations) + (IF allocate_failed THEN 1 ELSE 0)

\* the requests made to the TextureAllocator so far, granted or refused
AllocatorRequests == Len(granted) + (IF allocate_failed THEN 1 ELSE 0)

\* C11: after n allocate calls the packer has made ceil(n / 256) requests to the
\* allocator: one at the 1st, the 257th, the 513th, ... call and at no other.
C11_RequestEvery256Calls ==
    AllocatorRequests =
        (AllocateCalls + MAX_SOLID_COLORS_PER_TILE - 1) \div MAX_SOLID_COLORS_PER_TILE

\* C11's case: the 257th call has just opened the second tile, which the 256
\* calls before it had not.
C11_Witness ==
    /\ AllocateCalls = MAX_SOLID_COLORS_PER_TILE + 1
    /\ AllocatorRequests = 2
    /\ builder # <<>> /\ builder[1].next_index = 1

====
